---- MODULE Spec2Model ----
(***************************************************************************)
(* Model of matchmaker.py: the Match Maker tool, which pairs low-poly      *)
(* transforms of a scene with the nearest high-poly transform and renames  *)
(* the match.                                                              *)
(*                                                                         *)
(* Numbers.  Lengths and areas are fixed-point integers in units of 1e-4,  *)
(* so round(x, 3) is rounding to the nearest multiple of 10.  The scene is *)
(* laid out on a line: the distance of two bounding-box centres is the     *)
(* absolute difference of their coordinates.                               *)
(*                                                                         *)
(* Nodes.  Transforms are 1..NumTransforms; the mesh shape under transform *)
(* t, when it has one, is node NumTransforms + t.                          *)
(*                                                                         *)
(* Lists.  list(set(..)) and the keys of a dictionary come in an order the *)
(* code does not control: every order is a possible outcome.               *)
(*                                                                         *)
(* Names.  pm.rename changes the name of a node in the host.  The tool     *)
(* reads names only to build the argument of the next pm.rename, never to  *)
(* choose a node, so the model records the calls (item, target) and leaves *)
(* the names out of the state.                                             *)
(***************************************************************************)
EXTENDS Integers, Sequences, FiniteSets

VARIABLES
    scene,              \* the host's scene graph and geometry (never changed by the tool)
    selected,           \* the host's active selection, pm.selected(), as a set of nodes
    softSelectEnabled,  \* the host's soft-select switch
    hierarchyOpt,       \* loadOptions: TRUE when the 'Hierarchy' radio button is checked
    lowChecked,         \* lowPolyBtn.isChecked()
    highChecked,        \* highPolyBtn.isChecked()
    matchEnabled,       \* matchBtn.isEnabled()
    low_poly_items,     \* Window.low_poly_items
    high_poly_items,    \* Window.high_poly_items
    renamed,            \* the pm.rename calls of the most recent handler: <<item, target>> pairs
    matchRan,           \* whether the most recent handler was Window.match
    args,               \* arguments of a direct call of one of the module's functions
    ret                 \* outcome of that call

vars == <<scene, selected, softSelectEnabled, hierarchyOpt, lowChecked, highChecked,
          matchEnabled, low_poly_items, high_poly_items, renamed, matchRan, args, ret>>

----------------------------------------------------------------------------
(* Bounds of the model *)

NumTransforms == 3

MaxSel == 2

(* Program constants, in units of 1e-4 *)

WindowRadius == 5000

DefaultRadius == 10000

----------------------------------------------------------------------------
(* Generic helpers *)

Range(s) == {s[i] : i \in DOMAIN s}

Abs(x) == IF x < 0 THEN -x ELSE x

\* All lists that enumerate the finite set S once each: the orders list(set(..)) can give.
ListsOf(S) == {s \in [1..Cardinality(S) -> S] : Range(s) = S}

\* Lists without repetition of at most n elements of S.
SeqsUpTo(S, n) == UNION {ListsOf(T) : T \in {T \in SUBSET S : Cardinality(T) <= n}}

----------------------------------------------------------------------------
(* The host's scene graph *)

Transforms == 1..NumTransforms

MeshOf(t) == NumTransforms + t

IsMesh(n) == n > NumTransforms

\* mesh.getTransform()
GetTransform(m) == m - NumTransforms

Nodes(sc) == Transforms \cup {MeshOf(t) : t \in {u \in Transforms : sc.hasMesh[u]}}

\* node.listRelatives(children=True, type='mesh')
ChildMeshes(sc, n) ==
    IF n \in Transforms /\ sc.hasMesh[n] THEN {MeshOf(n)} ELSE {}

ChildTransforms(sc, n) == {t \in Transforms : sc.parent[t] = n}

\* pm.listRelatives(n, allDescendents=True, type='mesh'); parent[t] < t, so the
\* recursion descends at most NumTransforms levels.
RECURSIVE DescendentMeshes(_, _)
DescendentMeshes(sc, n) ==
    IF IsMesh(n) THEN {}
    ELSE ChildMeshes(sc, n)
         \cup UNION {DescendentMeshes(sc, c) : c \in ChildTransforms(sc, n)}

\* Transforms that carry a mesh shape.
MeshTransforms(sc) == {t \in Transforms : sc.hasMesh[t]}

\* needle.getBoundingBox(space='world').center() distanceTo the same of straw
CenterDistance(sc, a, b) == Abs(sc.center[a] - sc.center[b])

----------------------------------------------------------------------------
(* get_transforms *)

\* The elements of a finite set of nodes in increasing order.
RECURSIVE SortedList(_)
SortedList(S) ==
    IF S = {} THEN <<>>
    ELSE LET m == CHOOSE x \in S : \A y \in S : x <= y
         IN  <<m>> \o SortedList(S \ {m})

\* [mesh.getTransform() for mesh in child_meshes]
TransformsOfMeshes(meshes) == [i \in DOMAIN meshes |-> GetTransform(meshes[i])]

\* What one pass of the loop over pm.selected() adds to result.
TransformsFor(sc, selection, hierarchy) ==
    (IF ChildMeshes(sc, selection) # {} THEN <<selection>> ELSE <<>>)
    \o (IF hierarchy
        THEN TransformsOfMeshes(SortedList(DescendentMeshes(sc, selection)))
        ELSE <<>>)

\* result, as the loop leaves it: repetitions included.
RECURSIVE CollectTransforms(_, _, _, _)
CollectTransforms(sc, sel, hierarchy, i) ==
    IF i > Len(sel) THEN <<>>
    ELSE TransformsFor(sc, sel[i], hierarchy) \o CollectTransforms(sc, sel, hierarchy, i + 1)

\* pm.selected() as the list the loop runs over (its order does not reach the result).
SelectedList(sel) == SortedList(sel)

\* list(set(result)): every order the set may be listed in.
DedupNone(result) == {result}

Dedup(result) == ListsOf(Range(result))

\* get_transforms(hierarchy): the lists it may return for the selection sel.
GetTransforms(sc, sel, hierarchy) ==
    Dedup(CollectTransforms(sc, SelectedList(sel), hierarchy, 1))

----------------------------------------------------------------------------
(* find_closest, closest_center, closest_area, find_best_match *)

\* round(x, 3) of Python 2: to the nearest multiple of 1e-3, halves away from zero.
Round3(x) == IF x >= 0 THEN ((x + 5) \div 10) * 10 ELSE -(((-x + 5) \div 10) * 10)

\* min() of an empty sequence raises ValueError.
ValueError == [raised |-> TRUE, keys |-> {}]

FindClosestExact(dictionary, target) ==
    IF DOMAIN dictionary = {} THEN ValueError
    ELSE LET diffs == {Abs(dictionary[k] - target) : k \in DOMAIN dictionary}
             min_diff == CHOOSE m \in diffs : \A d \in diffs : m <= d
         IN  [raised |-> FALSE,
              keys |-> {k \in DOMAIN dictionary : Abs(dictionary[k] - target) = min_diff}]

\* find_closest(dictionary, target): the keys it returns (their order is the
\* dictionary's, which the callers do not control).
FindClosest(dictionary, target) ==
    IF DOMAIN dictionary = {} THEN ValueError
    ELSE LET diffs == {Abs(dictionary[k] - target) : k \in DOMAIN dictionary}
             min_diff == CHOOSE m \in diffs : \A d \in diffs : m <= d
         IN  [raised |-> FALSE,
              keys |-> {k \in DOMAIN dictionary :
                          Round3(Abs(dictionary[k] - target)) = Round3(min_diff)}]

ClosestCenter(sc, needle, haystack) ==
    LET center_points == [straw \in haystack |-> CenterDistance(sc, needle, straw)]
    IN  FindClosest(center_points, 0)

ClosestArea(sc, needle, haystack) ==
    LET needle_area == sc.area[needle]
        straw_areas == [straw \in haystack |-> sc.area[straw]]
    IN  FindClosest(straw_areas, needle_area)

\* find_best_match(needle, haystack): whether it raises, and otherwise the items
\* it may return (area_matches[0] is the first key in dictionary order).
FindBestMatch(sc, needle, haystack) ==
    LET center_matches == ClosestCenter(sc, needle, haystack)
    IN  IF center_matches.raised THEN [raised |-> TRUE, matches |-> {}]
        ELSE IF Cardinality(center_matches.keys) = 1
             THEN [raised |-> FALSE, matches |-> center_matches.keys]
             ELSE [raised |-> FALSE,
                   matches |-> ClosestArea(sc, needle, center_matches.keys).keys]

----------------------------------------------------------------------------
(* get_softselection, select_in_sphere, set_exclusion *)

\* dagPath.transform(): the lowest transform on the path to a node.
TransformOf(n) == IF IsMesh(n) THEN GetTransform(n) ELSE n

\* get_softselection(): the transforms in the host's rich selection.  These are
\* the transforms of the selected items and, with soft select on, the transforms
\* whose mesh lies within the falloff distance of a selected item.
GetSoftSelection(sc, sel, enabled, distance) ==
    {TransformOf(n) : n \in sel}
    \cup (IF enabled
          THEN {t \in MeshTransforms(sc) :
                  \E n \in sel : CenterDistance(sc, TransformOf(n), t) <= distance}
          ELSE {})

SelectInSphereKeepSelection(sc, host, item, radius) ==
    [host  |-> [selected |-> {item}, softSelectEnabled |-> FALSE],
     items |-> GetSoftSelection(sc, {item}, TRUE, radius)]

\* select_in_sphere(item, radius): the host state it leaves and the items it returns.
SelectInSphere(sc, host, item, radius) ==
    LET saved == host.selected
        h1    == [host EXCEPT !.selected = {item}]
        h2    == [h1 EXCEPT !.softSelectEnabled = TRUE]
        items == GetSoftSelection(sc, h2.selected, h2.softSelectEnabled, radius)
        h3    == [h2 EXCEPT !.softSelectEnabled = FALSE]
        h4    == IF saved # {}
                 THEN [h3 EXCEPT !.selected = saved]
                 ELSE [h3 EXCEPT !.selected = {}]
    IN  [host |-> h4, items |-> items]

\* set_exclusion(a, b)
SetExclusion(a, b) == b \ a

----------------------------------------------------------------------------
(* Window.match *)

CandidatesWithLow(low, high, items_near) ==
    IF high # <<>> THEN Range(high) \cap items_near ELSE items_near

CandidatesAnyNear(low, high, items_near) ==
    SetExclusion(Range(low), items_near)

\* The items left to choose from for one low-poly item (lines 305-310).
Candidates(low, high, items_near) ==
    LET items == SetExclusion(Range(low), items_near)
    IN  IF high # <<>> THEN Range(high) \cap items ELSE items

\* The loop of Window.match from its i-th item on: every outcome it may have,
\* as the host state left and the rename calls made.
RECURSIVE WindowMatchFrom(_, _, _, _, _, _)
WindowMatchFrom(sc, host, low, high, i, calls) ==
    IF i > Len(low) THEN {[host |-> host, calls |-> calls]}
    ELSE LET item  == low[i]
             near  == SelectInSphere(sc, host, item, WindowRadius)
             items == Candidates(low, high, near.items)
         IN  IF items # {}
             THEN UNION {WindowMatchFrom(sc, near.host, low, high, i + 1,
                                         Append(calls, <<item, target>>)) :
                           target \in FindBestMatch(sc, item, items).matches}
             ELSE WindowMatchFrom(sc, near.host, low, high, i + 1, calls)

----------------------------------------------------------------------------
(* match(source) *)

\* The loop of match from its i-th node on: every outcome it may have.
RECURSIVE MatchFrom(_, _, _, _, _)
MatchFrom(sc, host, source, i, matches) ==
    IF i > Len(source) THEN {[host |-> host, raised |-> FALSE, matches |-> matches]}
    ELSE LET node == source[i]
         IN  IF ChildMeshes(sc, node) # {}
             THEN LET limited_search == SelectInSphere(sc, host, node, DefaultRadius)
                      haystack == SetExclusion(Range(source), limited_search.items)
                      best     == FindBestMatch(sc, node, haystack)
                  IN  IF best.raised
                      THEN {[host |-> limited_search.host, raised |-> TRUE, matches |-> <<>>]}
                      ELSE UNION {MatchFrom(sc, limited_search.host, source, i + 1,
                                            Append(matches, <<node, m>>)) :
                                    m \in best.matches}
             ELSE MatchFrom(sc, host, source, i + 1, matches)

----------------------------------------------------------------------------
(* Scenes *)

\* Parent of every transform (0 is the world); a parent has a smaller number.
Parents == {p \in [Transforms -> 0..NumTransforms] : \A t \in Transforms : p[t] < t}

Flat == [t \in Transforms |-> 0]

AllMeshes == [t \in Transforms |-> TRUE]

\* Transforms in a row, a fixed spacing apart.
Row(spacing) == [t \in Transforms |-> (t - 1) * spacing]

\* Areas 0.02 and 0.01 in turn.
AlternatingAreas == [t \in Transforms |-> 100 + 100 * (t % 2)]

EqualAreas == [t \in Transforms |-> 100]

\* Scenes of the window: every transform carries a mesh.  With the radius of 0.5,
\* a spacing of 0.25 puts two neighbours on a side within reach, 0.4 one, 0.8 none.
WindowScenes ==
    [parent : {Flat}, hasMesh : {AllMeshes},
     center : {Row(d) : d \in {0, 2500, 4000, 8000}},
     area : {AlternatingAreas, EqualAreas}]

\* Scenes for find_best_match: centres and areas that differ below, at and above
\* the rounding step of 1e-3.
FindScenes ==
    [parent : {Flat}, hasMesh : {AllMeshes},
     center : [Transforms -> {0, 4, 6, 15}], area : [Transforms -> {100, 104, 106}]]

\* Scenes for match(source): transforms with and without a mesh, inside and
\* outside the radius of 1.0.
MatchScenes ==
    [parent : {Flat}, hasMesh : [Transforms -> BOOLEAN],
     center : {Row(d) : d \in {0, 6000, 12000}}, area : {AlternatingAreas}]

\* Scenes for get_transforms: every hierarchy, one geometry.
TreeScenes ==
    [parent : Parents, hasMesh : [Transforms -> BOOLEAN],
     center : {Row(0)}, area : {AlternatingAreas}]

\* Selections of at most MaxSel nodes out of S.
Selections(S) == {T \in SUBSET S : Cardinality(T) <= MaxSel}

NoCall == [fn |-> "none"]

NoReturn == [returned |-> FALSE, raised |-> FALSE, value |-> <<>>]

----------------------------------------------------------------------------
(* The window and the host, driven by the user *)

Init ==
    /\ scene \in WindowScenes
    /\ selected = {}
    /\ softSelectEnabled = FALSE
    /\ hierarchyOpt = FALSE
    /\ lowChecked = FALSE
    /\ highChecked = FALSE
    /\ matchEnabled = FALSE
    /\ low_poly_items = <<>>
    /\ high_poly_items = <<>>
    /\ renamed = <<>>
    /\ matchRan = FALSE
    /\ args = NoCall
    /\ ret = NoReturn

\* The user selects transforms in the host.
Select ==
    /\ \E s \in Selections(Transforms) : selected' = s
    /\ renamed' = <<>>
    /\ matchRan' = FALSE
    /\ UNCHANGED <<scene, softSelectEnabled, hierarchyOpt, lowChecked, highChecked,
                   matchEnabled, low_poly_items, high_poly_items, args, ret>>

\* The user switches soft select in the host.
ToggleSoftSelect ==
    /\ softSelectEnabled' = ~softSelectEnabled
    /\ renamed' = <<>>
    /\ matchRan' = FALSE
    /\ UNCHANGED <<scene, selected, hierarchyOpt, lowChecked, highChecked,
                   matchEnabled, low_poly_items, high_poly_items, args, ret>>

\* The user checks the 'Selected' or the 'Hierarchy' radio button.
ClickLoadOption ==
    /\ \E b \in BOOLEAN : hierarchyOpt' = b
    /\ renamed' = <<>>
    /\ matchRan' = FALSE
    /\ UNCHANGED <<scene, selected, softSelectEnabled, lowChecked, highChecked,
                   matchEnabled, low_poly_items, high_poly_items, args, ret>>

\* A click on 'Load Low' toggles the button and runs set_low_poly_items.
SetLowPolyItems ==
    /\ lowChecked' = ~lowChecked
    /\ IF lowChecked'
       THEN /\ matchEnabled' = TRUE
            /\ low_poly_items' \in GetTransforms(scene, selected, hierarchyOpt)
       ELSE /\ matchEnabled' = FALSE
            /\ low_poly_items' = <<>>
    /\ renamed' = <<>>
    /\ matchRan' = FALSE
    /\ UNCHANGED <<scene, selected, softSelectEnabled, hierarchyOpt, highChecked,
                   high_poly_items, args, ret>>

\* A click on 'Load High' toggles the button and runs set_high_poly_items.
SetHighPolyItems ==
    /\ highChecked' = ~highChecked
    /\ IF highChecked'
       THEN high_poly_items' \in GetTransforms(scene, selected, hierarchyOpt)
       ELSE high_poly_items' = <<>>
    /\ renamed' = <<>>
    /\ matchRan' = FALSE
    /\ UNCHANGED <<scene, selected, softSelectEnabled, hierarchyOpt, lowChecked,
                   matchEnabled, low_poly_items, args, ret>>

\* A click on 'Match' (possible only while the button is enabled) runs Window.match.
WindowMatch ==
    /\ matchEnabled
    /\ \E out \in WindowMatchFrom(scene,
                                  [selected |-> selected, softSelectEnabled |-> softSelectEnabled],
                                  low_poly_items, high_poly_items, 1, <<>>) :
          /\ selected' = out.host.selected
          /\ softSelectEnabled' = out.host.softSelectEnabled
          /\ renamed' = out.calls
    /\ matchRan' = TRUE
    /\ UNCHANGED <<scene, hierarchyOpt, lowChecked, highChecked, matchEnabled,
                   low_poly_items, high_poly_items, args, ret>>

Next ==
    \/ Select
    \/ ToggleSoftSelect
    \/ ClickLoadOption
    \/ SetLowPolyItems
    \/ SetHighPolyItems
    \/ WindowMatch

Spec == Init /\ [][Next]_vars

----------------------------------------------------------------------------
(* Direct calls of the module's functions *)

WindowIdle ==
    /\ hierarchyOpt = FALSE
    /\ lowChecked = FALSE
    /\ highChecked = FALSE
    /\ matchEnabled = FALSE
    /\ low_poly_items = <<>>
    /\ high_poly_items = <<>>
    /\ renamed = <<>>
    /\ matchRan = FALSE
    /\ ret = NoReturn

\* find_best_match(needle, haystack)
InitFind ==
    /\ scene \in FindScenes
    /\ selected = {}
    /\ softSelectEnabled = FALSE
    /\ args \in [fn : {"find_best_match"}, needle : {1}, haystack : SUBSET Transforms]
    /\ WindowIdle

CallFindBestMatch ==
    /\ ~ret.returned
    /\ LET best == FindBestMatch(scene, args.needle, args.haystack)
       IN  IF best.raised
           THEN ret' = [returned |-> TRUE, raised |-> TRUE, value |-> <<>>]
           ELSE \E m \in best.matches :
                   ret' = [returned |-> TRUE, raised |-> FALSE, value |-> <<m>>]
    /\ UNCHANGED <<scene, selected, softSelectEnabled, hierarchyOpt, lowChecked, highChecked,
                   matchEnabled, low_poly_items, high_poly_items, renamed, matchRan, args>>

SpecFind == InitFind /\ [][CallFindBestMatch]_vars

\* match(source)
InitMatch ==
    /\ scene \in MatchScenes
    /\ selected \in {T \in SUBSET Nodes(scene) : Cardinality(T) <= 1}
    /\ softSelectEnabled \in BOOLEAN
    /\ args \in [fn : {"match"}, source : SeqsUpTo(Nodes(scene), MaxSel)]
    /\ WindowIdle

CallMatch ==
    /\ ~ret.returned
    /\ \E out \in MatchFrom(scene,
                            [selected |-> selected, softSelectEnabled |-> softSelectEnabled],
                            args.source, 1, <<>>) :
          /\ selected' = out.host.selected
          /\ softSelectEnabled' = out.host.softSelectEnabled
          /\ ret' = [returned |-> TRUE, raised |-> out.raised, value |-> out.matches]
    /\ UNCHANGED <<scene, hierarchyOpt, lowChecked, highChecked,
                   matchEnabled, low_poly_items, high_poly_items, renamed, matchRan, args>>

SpecMatch == InitMatch /\ [][CallMatch]_vars

\* get_transforms(hierarchy)
InitTransforms ==
    /\ scene \in TreeScenes
    /\ selected \in Selections(Nodes(scene))
    /\ softSelectEnabled = FALSE
    /\ args \in [fn : {"get_transforms"}, hierarchy : BOOLEAN]
    /\ WindowIdle

CallGetTransforms ==
    /\ ~ret.returned
    /\ \E r \in GetTransforms(scene, selected, args.hierarchy) :
          ret' = [returned |-> TRUE, raised |-> FALSE, value |-> r]
    /\ UNCHANGED <<scene, selected, softSelectEnabled, hierarchyOpt, lowChecked, highChecked,
                   matchEnabled, low_poly_items, high_poly_items, renamed, matchRan, args>>

SpecTransforms == InitTransforms /\ [][CallGetTransforms]_vars

----------------------------------------------------------------------------
(* Properties *)

\* The centre distance of a straw from the needle of the call.
NeedleDistance(h) == CenterDistance(scene, args.needle, h)

\* The difference in area of a straw from the needle of the call.
NeedleAreaDiff(h) == Abs(scene.area[h] - scene.area[args.needle])

\* The straws whose rounded centre distance is the rounded least centre distance.
CenterTied ==
    {h \in args.haystack :
       \E g \in args.haystack :
          /\ \A k \in args.haystack : NeedleDistance(g) <= NeedleDistance(k)
          /\ Round3(NeedleDistance(h)) = Round3(NeedleDistance(g))}

\* C1: on a non-empty haystack find_best_match returns a straw whose rounded
\* centre distance is the rounded minimum; when several straws are tied on that,
\* the one returned has the least rounded area difference among the tied.
C1_BestMatch ==
    (ret.returned /\ args.haystack # {}) =>
        /\ ~ret.raised
        /\ Len(ret.value) = 1
        /\ ret.value[1] \in args.haystack
        /\ ret.value[1] \in CenterTied
        /\ Cardinality(CenterTied) > 1 =>
              \A h \in CenterTied :
                 Round3(NeedleAreaDiff(ret.value[1])) <= Round3(NeedleAreaDiff(h))

\* A call whose result is not the straw nearest before rounding: the tie of
\* the rounded distances was broken by area.
C1_Witness ==
    /\ ret.returned
    /\ ~ret.raised
    /\ Cardinality(CenterTied) > 1
    /\ \E h \in args.haystack : NeedleDistance(h) < NeedleDistance(ret.value[1])
    /\ \E h \in CenterTied : NeedleAreaDiff(h) > NeedleAreaDiff(ret.value[1])

\* The items rename was called for, and the nodes it renamed.
RenamedItems == {renamed[i][1] : i \in DOMAIN renamed}

RenamedTargets == {renamed[i][2] : i \in DOMAIN renamed}

\* C2: no node passed to rename is a low-poly item.
C2_NeverLowPoly == RenamedTargets \cap Range(low_poly_items) = {}

\* A run that renamed for an item with another low-poly item in reach.
C2_Witness ==
    \E i \in DOMAIN renamed :
       \E other \in Range(low_poly_items) :
          /\ other # renamed[i][1]
          /\ CenterDistance(scene, renamed[i][1], other) <= WindowRadius

\* C3: every renamed node is in the soft selection of radius 0.5 around its
\* item, and in high_poly_items when that list is not empty; with the list empty
\* every item with a node in reach that is not a low-poly item gets a rename.
C3_NearAndHigh ==
    /\ \A i \in DOMAIN renamed :
          /\ renamed[i][2] \in GetSoftSelection(scene, {renamed[i][1]}, TRUE, WindowRadius)
          /\ CenterDistance(scene, renamed[i][1], renamed[i][2]) <= WindowRadius
          /\ high_poly_items # <<>> => renamed[i][2] \in Range(high_poly_items)
    /\ (matchRan /\ high_poly_items = <<>>) =>
          \A item \in Range(low_poly_items) :
             (\E n \in Transforms \ Range(low_poly_items) :
                 CenterDistance(scene, item, n) <= WindowRadius)
             => item \in RenamedItems

\* A run with high-poly items loaded that passed over a nearer node not among them.
C3_Witness ==
    /\ high_poly_items # <<>>
    /\ \E i \in DOMAIN renamed :
          \E n \in Transforms \ (Range(low_poly_items) \cup Range(high_poly_items)) :
             CenterDistance(scene, renamed[i][1], n)
                < CenterDistance(scene, renamed[i][1], renamed[i][2])

\* Transform t and the transforms above it in the hierarchy.
RECURSIVE SelfAndAncestors(_)
SelfAndAncestors(t) ==
    IF t = 0 THEN {} ELSE {t} \cup SelfAndAncestors(scene.parent[t])

\* C4: match(source) returns one pair per source node with a mesh child, in
\* source order, each with a partner in the soft selection of radius 1.0 that is
\* not in source; in every scene.
C4_OnePairPerMeshNode ==
    ret.returned =>
        /\ ~ret.raised
        /\ LET nodes == SelectSeq(args.source, LAMBDA n : n \in Transforms /\ scene.hasMesh[n])
           IN  /\ Len(ret.value) = Len(nodes)
               /\ \A i \in DOMAIN ret.value :
                     /\ ret.value[i][1] = nodes[i]
                     /\ CenterDistance(scene, nodes[i], ret.value[i][2]) <= DefaultRadius
                     /\ ret.value[i][2] \notin Range(args.source)

\* C5: get_transforms returns, without repetition, the selected transforms with a
\* mesh child and, with hierarchy, the transforms of the meshes below a selected node.
C5_GetTransforms ==
    ret.returned =>
        /\ \A i, j \in DOMAIN ret.value : ret.value[i] = ret.value[j] => i = j
        /\ \A i \in DOMAIN ret.value :
              ret.value[i] \in Transforms /\ scene.hasMesh[ret.value[i]]
        /\ Range(ret.value) =
              {t \in Transforms :
                 /\ scene.hasMesh[t]
                 /\ \/ t \in selected
                    \/ args.hierarchy /\ SelfAndAncestors(t) \cap selected # {}}

\* A call with hierarchy that returns a selected transform, which the loop adds
\* twice, and a transform that is not selected.
C5_Witness ==
    /\ ret.returned
    /\ args.hierarchy
    /\ Range(ret.value) \cap selected # {}
    /\ Range(ret.value) \ selected # {}

\* C6: a run of Window.match leaves the host selection as it was, and soft select
\* off once select_in_sphere has been called.
C6_SelectionRestored ==
    [][matchRan' =>
          /\ selected' = selected
          /\ low_poly_items # <<>> => ~softSelectEnabled']_vars

\* A run that renamed for an item which is not selected, with the selection in place.
C6_Witness ==
    /\ matchRan
    /\ renamed # <<>>
    /\ selected # {}
    /\ RenamedItems \cap selected = {}
    /\ ~softSelectEnabled

\* C7: no two rename calls of one run are for the same node.
C7_OneToOne ==
    \A i, j \in DOMAIN renamed : renamed[i][2] = renamed[j][2] => i = j

====
